---- MODULE Spec2Model ----
(***************************************************************************)
(* Model of the JIT addon plugin of score-addon-jit:                       *)
(*   - ScoreLinkingLayer (the in-process object linking layer),            *)
(*   - ApplicationPlugin (the host glue that submits compilation jobs and  *)
(*     registers the compiled plugins).                                    *)
(***************************************************************************)
EXTENDS Integers, Sequences, FiniteSets, TLC

(***************************************************************************)
(* Bounds                                                                  *)
(***************************************************************************)
MaxKey == 2

\* The number of submitJob calls a run makes.
MaxJobs == 3

\* The number of single-shot timers pending at a time.
MaxTimers == 2

\* The callbacks recorded for a module; further ones are not recorded.
MaxCalls == 3

Keys == 1 .. MaxKey

(***************************************************************************)
(* Symbol names and object files                                           *)
(***************************************************************************)
NameSeq == <<"a", "b", "c", "e", "m">>

Names == {NameSeq[i] : i \in 1 .. Len(NameSeq)}

\* The names the host looks up.
LookupNames == {"a", "b", "c"}

NameIdx(n) == CHOOSE i \in 1 .. Len(NameSeq) : NameSeq[i] = n

\* JITEvaluatedSymbol(0, Flags): the placeholder address of a symbol that
\* has not been loaded.
NullAddr == 0

\* Symbols the host process itself provides.
External == {"e", "b"}

\* The object buffers that can be handed to addObject.  parses: whether
\* createObjectFile accepts the buffer; exported/local: the defined symbols;
\* undef: the undefined references, in relocation order; fault: what
\* RuntimeDyld reports for it ("load": loadObject fails after registering the
\* symbols in loaded, "reloc": relocation fails after symbol resolution).
Objects ==
  << [parses |-> TRUE,  exported |-> {"a"},      local |-> {"c"}, undef |-> <<"e">>, fault |-> "none",  loaded |-> {}],
     [parses |-> TRUE,  exported |-> {"b"},      local |-> {},    undef |-> <<"a">>, fault |-> "none",  loaded |-> {}],
     [parses |-> TRUE,  exported |-> {"a"},      local |-> {},    undef |-> <<"b">>, fault |-> "none",  loaded |-> {}],
     [parses |-> TRUE,  exported |-> {"c"},      local |-> {},    undef |-> <<"m">>, fault |-> "none",  loaded |-> {}],
     [parses |-> TRUE,  exported |-> {"b"},      local |-> {},    undef |-> <<>>,    fault |-> "reloc", loaded |-> {}],
     [parses |-> TRUE,  exported |-> {"b", "c"}, local |-> {},    undef |-> <<>>,    fault |-> "load",  loaded |-> {"b"}],
     [parses |-> FALSE, exported |-> {},         local |-> {},    undef |-> <<>>,    fault |-> "none",  loaded |-> {}] >>

ObjIds == 1 .. Len(Objects)

Defined(o) == Objects[o].exported \cup Objects[o].local

\* The address RuntimeDyld gives symbol n of the module loaded under key K.
LoadAddr(K, n) == K * (Len(NameSeq) + 1) + NameIdx(n)

\* The address of a symbol of the host process.
ExternalAddr(n) == NameIdx(n)

(***************************************************************************)
(* State                                                                   *)
(***************************************************************************)
VARIABLES
  build,          \* "debug": assert() is compiled in; "release": NDEBUG
  alive,          \* FALSE once the process has aborted or crashed
  LinkedObjects,  \* ScoreLinkingLayer::LinkedObjects: VModuleKey -> LinkedObject
  ret,            \* what the last linker call returned
  trace           \* the lookups and finalizations the last linker call made

VARIABLES
  submits,        \* the submitJob calls so far, [key, src, overlaps] each; a job's id is its index
  jobs,           \* the scheduler's job records: job id -> state
  linked,         \* the jobs whose object was handed to the linking layer
  events,         \* jobCompleted signals queued for the primary thread
  notified,       \* the completion notifications the host has received
  ranOn,          \* the threads compilations, links and registerAddon have run on
  hostRet         \* what the last setupAddon / setupNode call did: "submitted",
                  \* "empty" (no source files), "nomarker" (no identity marker),
                  \* "ignored" (any other return)

VARIABLES
  m_addonsPaths,  \* ApplicationPlugin::m_addonsPaths: the addon directories set up
  timers,         \* the QTimer::singleShot(5000, ...) of directoryChanged not yet fired
  burst,          \* the keys of the submitJob calls since the last quiet period
  changed,        \* the keys of known units whose source changed and was not resubmitted
  setups,         \* the paths rescanAddons has called setupAddon for, in call order
  rescanned       \* the paths a scan found again and skipped

VARIABLES
  Parent,         \* the callbacks of the ScoreLinkingLayer that are installed
  running         \* thread -> the linker call it is executing, Idle when none

linkerVars == <<build, alive, LinkedObjects, ret, trace>>

schedVars == <<submits, jobs, linked, events, notified, ranOn, hostRet>>

envVars == <<Parent, running>>

scanVars == <<setups, rescanned>>

hostVars == <<m_addonsPaths, timers, burst, changed, setups, rescanned>>

vars ==
  <<build, alive, LinkedObjects, ret, trace, submits, jobs, linked, events, notified, hostRet,
    m_addonsPaths, timers, burst, changed, setups, rescanned, ranOn, Parent, running>>

(***************************************************************************)
(* JITSymbol                                                               *)
(***************************************************************************)
NullSym == [kind |-> "null", key |-> 0, addr |-> NullAddr, exported |-> FALSE]

LazySym(K, exp) == [kind |-> "lazy", key |-> K, addr |-> NullAddr, exported |-> exp]

AddrSym(K, a, exp) == [kind |-> "addr", key |-> K, addr |-> a, exported |-> exp]

\* JITSymbol::operator bool: the symbol has an address or a materializer.
SymBool(s) == s.kind = "lazy" \/ (s.kind = "addr" /\ s.addr # NullAddr)

(***************************************************************************)
(* LinkedObject                                                            *)
(***************************************************************************)
buildInitialSymbolTable(o) == [n \in Defined(o) |-> NullAddr]

\* ConcreteLinkedObject's constructor.  PFC: the PreFinalizeContents (object
\* buffer, resolver, RuntimeDyld) are held; mapped: the memory manager holds
\* sections allocated for the object.
createLinkedObject(o) ==
  [obj |-> o, SymbolTable |-> buildInitialSymbolTable(o),
   Finalized |-> FALSE, PFC |-> TRUE, mapped |-> FALSE, ObjForNotify |-> FALSE, calls |-> <<>>]

getSymbol(m, K, Name, ExportedSymbolsOnly) ==
  IF Name \notin DOMAIN m.SymbolTable THEN NullSym
  ELSE IF Name \notin Objects[m.obj].exported /\ ExportedSymbolsOnly THEN NullSym
  ELSE IF ~m.Finalized THEN LazySym(K, Name \in Objects[m.obj].exported)
  ELSE AddrSym(K, m.SymbolTable[Name], Name \in Objects[m.obj].exported)

\* The first module, in key order, whose getSymbol converts to true.
findSymbol(LO, Name, ExportedSymbolsOnly) ==
  LET hits == {K \in DOMAIN LO : SymBool(getSymbol(LO[K], K, Name, ExportedSymbolsOnly))}
  IN IF hits = {} THEN NullSym
     ELSE LET K == CHOOSE k \in hits : \A k2 \in hits : k <= k2
          IN getSymbol(LO[K], K, Name, ExportedSymbolsOnly)

findSymbolIn(LO, K, Name, ExportedSymbolsOnly) ==
  getSymbol(LO[K], K, Name, ExportedSymbolsOnly)

(***************************************************************************)
(* Finalization.  finalize() calls the resolver for the undefined          *)
(* references of its object, a resolver lookup that finds a module not yet *)
(* finalized runs that module's finalize() before it returns.  A call is   *)
(* run as a configuration c = [LO, log, stack, err, errName]: stack holds  *)
(* one frame for each finalize() on the call stack, innermost last.        *)
(***************************************************************************)
Event(ev, K, n, a, e, inprog, fin) ==
  [ev |-> ev, key |-> K, name |-> n, addr |-> a, err |-> e, inprog |-> inprog, fin |-> fin]

Frame(K, refs) == [key |-> K, refs |-> refs, pending |-> ""]

StartCfg(LO, bld) ==
  [LO |-> LO, log |-> <<>>, stack |-> <<>>, err |-> "none", errName |-> "", bld |-> bld]

\* What a failed assert() does: it aborts a debug build; a release build goes
\* on to dereference the null pointer the assert guards against.
AssertFailure(bld) == IF bld = "debug" THEN "assert" ELSE "nullderef"

\* The errors that end the process.
Fatal == {"assert", "nullderef", "overflow"}

OnStack(c) == {c.stack[i].key : i \in 1 .. Len(c.stack)}

\* finalize() without "Finalized = true" ahead of loadObject.
MarkFinalized_Missing(m) == m

\* "Finalized = true", before loadObject.
MarkFinalized(m) == [m EXCEPT !.Finalized = TRUE]

\* RuntimeDyld::getSymbolTable after loadObject: every defined symbol when
\* the load succeeded, the symbols registered before the failure otherwise.
RTDyldSymbolTable(m, K) ==
  LET o == Objects[m.obj]
      syms == IF o.fault = "load" THEN o.loaded ELSE Defined(m.obj)
  IN [n \in syms |-> LoadAddr(K, n)]

\* loadObject, then "Copy the symbol table out of the RuntimeDyld instance".
LoadObject(m, K) ==
  LET SymTab == RTDyldSymbolTable(m, K)
  IN [m EXCEPT !.mapped = TRUE,
               !.SymbolTable = [n \in DOMAIN m.SymbolTable \cup DOMAIN SymTab |->
                                  IF n \in DOMAIN SymTab THEN SymTab[n] ELSE m.SymbolTable[n]]]

\* NotifyLoaded, NotifyFinalized and NotifyFreed default to empty functors.
NoCallbacks == [NotifyLoaded |-> FALSE, NotifyFinalized |-> FALSE, NotifyFreed |-> FALSE]

\* A finalize() that keeps its PreFinalizeContents.
ReleasePFC_Kept(m) == m

\* "Release resources": with NotifyFreed installed the object moves to
\* ObjForNotify; PFC = nullptr.
ReleasePFC(m) == [m EXCEPT !.ObjForNotify = Parent.NotifyFreed, !.PFC = FALSE]

\* "if (Parent.fn) Parent.fn(...)" for module m: the call is recorded with
\* the module, up to MaxCalls calls.
Notify(m, fn) ==
  IF Parent[fn] /\ Len(m.calls) < MaxCalls
  THEN [m EXCEPT !.calls = Append(@, fn)]
  ELSE m

\* What the call of callback fn is handed.  valid: the object or the
\* LoadedObjectInfo exists; the reference to one that does not is made by
\* dereferencing a null pointer.
NotifyArg(fn, valid) == IF Parent[fn] /\ ~valid THEN "invalidref" ELSE "none"

\* The callback called at an event of the log, "" when it is not installed.
Called(fn) == IF Parent[fn] THEN fn ELSE ""

\* A materializer that never runs finalize().
NeedsFinalize_Never(m) == FALSE

\* The materializer's test before it finalizes: "if (!this->Finalized)".
NeedsFinalize(m) == ~m.Finalized

\* finalize() of module K from its entry to the symbol table copied out of
\* RuntimeDyld: "assert(PFC && ...)", "Finalized = true", loadObject.
\* Entered for a module whose finalize() is already on the call stack, it
\* would recurse without bound.
Enter(c, K) ==
  IF K \in OnStack(c)
  THEN [c EXCEPT !.err = "overflow",
                 !.log = Append(c.log, Event("reenter", K, "", NullAddr, "overflow", TRUE,
                                             c.LO[K].Finalized))]
  ELSE IF ~c.LO[K].PFC
  THEN [c EXCEPT !.err = AssertFailure(c.bld),
                 !.log = Append(c.log, Event("nopfc", K, "", NullAddr, AssertFailure(c.bld), FALSE,
                                             c.LO[K].Finalized))]
  ELSE LET m1 == MarkFinalized(c.LO[K])
           m2 == Notify(LoadObject(m1, K), "NotifyLoaded")
           o == Objects[m2.obj]
       IN [c EXCEPT !.LO[K] = m2,
                    !.log = Append(c.log, Event("begin", K, "", NullAddr, "none", FALSE, m1.Finalized)),
                    !.stack = Append(c.stack, Frame(K, o.undef)),
                    !.err = IF o.fault = "load" THEN "load" ELSE "none"]

\* A resolver that does not look into the modules of the layer.
ResolverFinds_Nothing(LO, Name) == NullSym

\* Step (a) of the resolver: the exported symbols of the live modules.
ResolverFinds(LO, Name) == findSymbol(LO, Name, TRUE)

\* The resolver of a module looking up Name for the innermost finalize():
\* the modules of the layer first, then the host process, else the symbol is
\* unresolved.  A symbol with an address is returned as it is; a symbol with
\* a materializer runs it (getSymbolMaterializer).
Resolve(c, Name) ==
  LET d == Len(c.stack)
      sym == ResolverFinds(c.LO, Name)
      adv == [c EXCEPT !.stack[d].refs = Tail(c.stack[d].refs)]
  IN IF sym.kind = "null"
     THEN IF Name \in External
          THEN [adv EXCEPT !.log = Append(c.log, Event("external", 0, Name, ExternalAddr(Name),
                                                       "none", FALSE, FALSE))]
          ELSE [c EXCEPT !.err = "unresolved", !.errName = Name,
                         !.log = Append(c.log, Event("external", 0, Name, NullAddr,
                                                     "unresolved", FALSE, FALSE))]
     ELSE IF sym.kind = "addr"
     THEN [adv EXCEPT !.log = Append(c.log, Event("lookup", sym.key, Name, sym.addr, "none",
                                                  sym.key \in OnStack(c), TRUE))]
     ELSE IF NeedsFinalize(c.LO[sym.key])
     THEN Enter([adv EXCEPT !.stack[d].pending = Name], sym.key)
     ELSE [adv EXCEPT !.log = Append(c.log, Event("lookup", sym.key, Name,
                                                  c.LO[sym.key].SymbolTable[Name], "none",
                                                  sym.key \in OnStack(c), c.LO[sym.key].Finalized))]

\* The innermost finalize() returns: with the error it met, or after
\* "PFC = nullptr" with success.  The lookup that ran it then returns the
\* error, or getSymbol(Name, false).getAddress().
Return(c) ==
  LET d == Len(c.stack)
      K == c.stack[d].key
      below == SubSeq(c.stack, 1, d - 1)
      LO2 == IF c.err = "none"
             THEN [c.LO EXCEPT ![K] = ReleasePFC(Notify(c.LO[K], "NotifyFinalized"))]
             ELSE c.LO
      a == IF c.err = "none" /\ d > 1
           THEN getSymbol(LO2[K], K, c.stack[d - 1].pending, FALSE).addr
           ELSE NullAddr
      ended == Append(c.log, Event("end", K, "", NullAddr, c.err, FALSE, LO2[K].Finalized))
  IN [c EXCEPT !.LO = LO2,
               !.stack = below,
               !.log = IF d > 1
                       THEN Append(ended, Event("lookup", K, c.stack[d - 1].pending, a, c.err,
                                                K \in OnStack([c EXCEPT !.stack = below]),
                                                LO2[K].Finalized))
                       ELSE ended]

\* One step of the innermost finalize(): finalizeWithMemoryManagerLocking
\* resolves the next undefined reference, or, all resolved, applies the
\* relocations; "if (PFC->RTDyld->hasError()) return make_error".
Step(c) ==
  LET f == c.stack[Len(c.stack)]
  IN IF c.err # "none" THEN Return(c)
     ELSE IF f.refs # <<>> THEN Resolve(c, Head(f.refs))
     ELSE IF Objects[c.LO[f.key].obj].fault = "reloc" THEN Return([c EXCEPT !.err = "reloc"])
     ELSE Return(c)

RECURSIVE Run(_)
Run(c) == IF c.stack = <<>> THEN c ELSE Run(Step(c))

\* ConcreteLinkedObject::finalize of module K.
finalize(LO, K, bld) == Run(Enter(StartCfg(LO, bld), K))

\* JITSymbol::getAddress: the cached address, or the materializer run now.
getAddress(LO, sym, Name, bld) ==
  IF sym.kind = "addr"
  THEN [StartCfg(LO, bld) EXCEPT
          !.log = <<Event("lookup", sym.key, Name, sym.addr, "none", FALSE, TRUE)>>]
  ELSE IF NeedsFinalize(LO[sym.key]) THEN finalize(LO, sym.key, bld)
  ELSE StartCfg(LO, bld)

(***************************************************************************)
(* ScoreLinkingLayer's public operations, as functions of LinkedObjects.   *)
(* bld is the build: a failed assert() aborts a debug build and is not     *)
(* compiled into a release build.                                          *)
(***************************************************************************)
ApiResult(LO, err, errName, sym, log, crash) ==
  [LO |-> LO, err |-> err, errName |-> errName, sym |-> sym, log |-> log, crash |-> crash]

EmptyObjects == [k \in {} |-> createLinkedObject(1)]

PutObject(LO, K, m) == [k \in DOMAIN LO \cup {K} |-> IF k = K THEN m ELSE LO[k]]

\* removeObject that leaves the module in LinkedObjects.
EraseObject_Kept(LO, K) == LO

\* LinkedObjects.erase(K)
EraseObject(LO, K) == [k \in DOMAIN LO \ {K} |-> LO[k]]

\* ~ConcreteLinkedObject, run when LinkedObjects gives up module K:
\* "if (Parent.NotifyFreed) Parent.NotifyFreed(K, *ObjForNotify.getBinary())".
Destroyed(LO, K) ==
  IF K \in DOMAIN LO
  THEN <<Event("destroy", K, Called("NotifyFreed"), NullAddr,
                NotifyArg("NotifyFreed", LO[K].ObjForNotify), FALSE, LO[K].Finalized)>>
  ELSE <<>>

\* "assert(!LinkedObjects.count(K))": in a release build the assignment to
\* LinkedObjects[K] replaces, and destroys, the module K had.
addObject(LO, K, o, bld) ==
  IF ~Objects[o].parses
  THEN ApiResult(LO, "parse", "", NullSym, <<>>, FALSE)
  ELSE IF K \in DOMAIN LO /\ bld = "debug"
  THEN ApiResult(LO, "assert", "", NullSym, <<>>, TRUE)
  ELSE ApiResult(PutObject(LO, K, createLinkedObject(o)), "none", "", NullSym,
                 Destroyed(LO, K), FALSE)

\* "assert(LinkedObjects.count(K))": in a release build erasing a key that
\* is not there does nothing.
removeObject(LO, K, bld) ==
  IF K \notin DOMAIN LO /\ bld = "debug"
  THEN ApiResult(LO, "assert", "", NullSym, <<>>, TRUE)
  ELSE ApiResult(EraseObject(LO, K), "none", "", NullSym, Destroyed(LO, K), FALSE)

\* LinkedObjects[K]->finalize(): a missing K is a failed assert, or in a
\* release build a null unique_ptr dereferenced.
emitAndFinalize(LO, K, bld) ==
  IF K \notin DOMAIN LO
  THEN ApiResult(LO, AssertFailure(bld), "", NullSym, <<>>, TRUE)
  ELSE LET r == finalize(LO, K, bld)
       IN ApiResult(r.LO, r.err, r.errName, NullSym, r.log, r.err \in Fatal)

\* findSymbol(Name, ExportedSymbolsOnly).getAddress()
lookupAddress(LO, Name, ExportedSymbolsOnly, bld) ==
  LET sym == findSymbol(LO, Name, ExportedSymbolsOnly)
  IN IF sym.kind = "null" THEN ApiResult(LO, "notfound", Name, sym, <<>>, FALSE)
     ELSE LET r == getAddress(LO, sym, Name, bld)
          IN ApiResult(r.LO, r.err, r.errName,
                       IF r.err = "none"
                       THEN AddrSym(sym.key, getSymbol(r.LO[sym.key], sym.key, Name, FALSE).addr,
                                    sym.exported)
                       ELSE sym,
                       r.log, r.err \in Fatal)

(***************************************************************************)
(* The linking layer driven through its public interface                   *)
(***************************************************************************)
\* Whether the process goes on after a linker call: not after a failed
\* assert or a crash; after a null pointer was dereferenced to make a
\* reference for a callback, it may and may not.
\* NotifyLoaded is handed *Info, null when loadObject failed; NotifyFreed is
\* handed *ObjForNotify.getBinary().
Survives(r) ==
  IF r.crash THEN {FALSE}
  ELSE IF \/ NotifyArg("NotifyLoaded", r.err # "load") = "invalidref"
          \/ \E i \in 1 .. Len(r.log) : r.log[i].err = "invalidref"
       THEN {TRUE, FALSE}
  ELSE {TRUE}

Ret(op, K, o, Name, exp, r) ==
  [op |-> op, key |-> K, obj |-> o, name |-> Name, exp |-> exp,
   err |-> r.err, errName |-> r.errName, sym |-> r.sym]

AddObject(K, o) ==
  \E r \in {addObject(LinkedObjects, K, o, build)} :
     /\ alive
     /\ alive' \in Survives(r)
     /\ LinkedObjects' = r.LO
     /\ ret' = Ret("addObject", K, o, "", FALSE, r)
     /\ trace' = r.log
     /\ UNCHANGED <<envVars, build, schedVars, hostVars>>

RemoveObject(K) ==
  \E r \in {removeObject(LinkedObjects, K, build)} :
     /\ alive
     /\ alive' \in Survives(r)
     /\ LinkedObjects' = r.LO
     /\ ret' = Ret("removeObject", K, 0, "", FALSE, r)
     /\ trace' = r.log
     /\ UNCHANGED <<envVars, build, schedVars, hostVars>>

EmitAndFinalize(K) ==
  \E r \in {emitAndFinalize(LinkedObjects, K, build)} :
     /\ alive
     /\ alive' \in Survives(r)
     /\ LinkedObjects' = r.LO
     /\ ret' = Ret("emitAndFinalize", K, 0, "", FALSE, r)
     /\ trace' = r.log
     /\ UNCHANGED <<envVars, build, schedVars, hostVars>>

FindSymbol(Name, exp) ==
  LET r == ApiResult(LinkedObjects, "none", "", findSymbol(LinkedObjects, Name, exp), <<>>, FALSE)
  IN /\ alive
     /\ ret' = Ret("findSymbol", 0, 0, Name, exp, r)
     /\ trace' = r.log
     /\ UNCHANGED <<envVars, build, alive, LinkedObjects, schedVars, hostVars>>

LookupAddress(Name, exp) ==
  \E r \in {lookupAddress(LinkedObjects, Name, exp, build)} :
     /\ alive
     /\ alive' \in Survives(r)
     /\ LinkedObjects' = r.LO
     /\ ret' = Ret("lookupAddress", 0, 0, Name, exp, r)
     /\ trace' = r.log
     /\ UNCHANGED <<envVars, build, schedVars, hostVars>>

\* The threads of the process: the primary (UI) thread and a worker.
Threads == {"primary", "worker"}

\* What a thread is doing in the layer: idle, or inside one call; raced is
\* set once the call has overlapped one it conflicts with.
Idle == [op |-> "idle", key |-> 0, obj |-> 0, name |-> "", raced |-> FALSE]

\* The callbacks a layer is constructed with here: NotifyLoaded and
\* NotifyFinalized, with and without NotifyFreed.
Installs ==
  {[NotifyLoaded |-> TRUE, NotifyFinalized |-> TRUE, NotifyFreed |-> f] : f \in BOOLEAN}

InitState ==
  /\ build \in {"debug", "release"}
  /\ alive = TRUE
  /\ LinkedObjects = EmptyObjects
  /\ ret = Ret("init", 0, 0, "", FALSE, ApiResult(EmptyObjects, "none", "", NullSym, <<>>, FALSE))
  /\ trace = <<>>
  /\ submits = <<>>
  /\ jobs = [j \in {} |-> "Pending"]
  /\ linked = {}
  /\ events = <<>>
  /\ notified = <<>>
  /\ hostRet = "init"
  /\ ranOn = [compile |-> {}, link |-> {}, registerAddon |-> {}]
  /\ running = [t \in Threads |-> Idle]
  /\ m_addonsPaths = {}
  /\ timers = 0
  /\ burst = <<>>
  /\ changed = {}
  /\ setups = <<>>
  /\ rescanned = {}

Init == Parent = NoCallbacks /\ InitState

\* A layer constructed with callbacks.
NotifyInit == Parent \in Installs /\ InitState

Next ==
  \/ \E K \in Keys, o \in ObjIds : AddObject(K, o)
  \/ \E K \in Keys : RemoveObject(K)
  \/ \E K \in Keys : EmitAndFinalize(K)
  \/ \E n \in LookupNames, exp \in BOOLEAN : FindSymbol(n, exp)
  \/ \E n \in LookupNames, exp \in BOOLEAN : LookupAddress(n, exp)

Spec == Init /\ [][Next]_vars

\* The objects handed to a layer with callbacks: one that finalizes, one
\* that depends on it, one whose relocation fails, one whose load fails.
NotifyObjs == {1, 2, 5, 6}

NotifyNext ==
  \/ \E K \in Keys, o \in NotifyObjs : AddObject(K, o)
  \/ \E K \in Keys : RemoveObject(K)
  \/ \E K \in Keys : EmitAndFinalize(K)
  \/ \E n \in {"b"} : LookupAddress(n, TRUE)

NotifySpec == NotifyInit /\ [][NotifyNext]_vars

(***************************************************************************)
(* The linking layer called from two threads.  addObject, removeObject,    *)
(* emitAndFinalize and findSymbol take no lock and LinkedObjects is a      *)
(* plain std::map: a call is entered whatever the other thread is doing.   *)
(***************************************************************************)
ThreadObjs == {1, 2}

ThreadCalls ==
  {[op |-> "addObject", key |-> K, obj |-> o, name |-> "", raced |-> FALSE] :
     K \in Keys, o \in ThreadObjs}
  \cup {[op |-> op, key |-> K, obj |-> 0, name |-> "", raced |-> FALSE] :
          op \in {"removeObject", "emitAndFinalize"}, K \in Keys}
  \cup {[op |-> "findSymbol", key |-> 0, obj |-> 0, name |-> n, raced |-> FALSE] :
          n \in {"a", "b"}}

\* The calls that write LinkedObjects or a module in it.
Mutates(c) == c.op \in {"addObject", "removeObject", "emitAndFinalize"}

\* Two calls in progress at once that are not both reads.
Races(c, d) == c.op # "idle" /\ d.op # "idle" /\ (Mutates(c) \/ Mutates(d))

\* What call c does when nothing interferes.
Apply(c) ==
  CASE c.op = "addObject" -> addObject(LinkedObjects, c.key, c.obj, build)
    [] c.op = "removeObject" -> removeObject(LinkedObjects, c.key, build)
    [] c.op = "emitAndFinalize" -> emitAndFinalize(LinkedObjects, c.key, build)
    [] OTHER -> ApiResult(LinkedObjects, "none", "",
                          findSymbol(LinkedObjects, c.name, TRUE), <<>>, FALSE)

\* Thread t enters a call: the first statement of the function, with no
\* lock to wait for.
EnterCall(t, c) ==
  /\ alive
  /\ running[t] = Idle
  /\ running' = [u \in Threads |->
                   IF u = t
                   THEN [c EXCEPT !.raced = \E v \in Threads \ {t} : Races(c, running[v])]
                   ELSE [running[u] EXCEPT !.raced = @ \/ Races(c, running[u])]]
  /\ UNCHANGED <<linkerVars, schedVars, hostVars, Parent>>

\* Thread t returns from its call.  A call that overlapped a conflicting
\* one was a data race on LinkedObjects: its writes may be kept or lost and
\* the process may crash.
LeaveCall(t) ==
  \E r \in {Apply(running[t])} :
     /\ alive
     /\ running[t] # Idle
     /\ IF running[t].raced
        THEN /\ LinkedObjects' \in {LinkedObjects, r.LO}
             /\ alive' \in (IF r.crash THEN {FALSE} ELSE {TRUE, FALSE})
        ELSE /\ LinkedObjects' = r.LO
             /\ alive' \in Survives(r)
     /\ ret' = Ret(running[t].op, running[t].key, running[t].obj, running[t].name, TRUE, r)
     /\ trace' = r.log
     /\ running' = [running EXCEPT ![t] = Idle]
     /\ UNCHANGED <<build, schedVars, hostVars, Parent>>

ThreadNext ==
  \/ \E t \in Threads, c \in ThreadCalls : EnterCall(t, c)
  \/ \E t \in Threads : LeaveCall(t)

ThreadSpec == Init /\ [][ThreadNext]_vars

(***************************************************************************)
(* Byte strings, as sequences of characters indexed from 0 as QByteArray   *)
(* and QString index them.                                                 *)
(***************************************************************************)
Rep(c, n) == [i \in 1 .. n |-> c]

\* indexOf(pat, from): the first position at or after from where pat
\* occurs, -1 when there is none.
IndexOf(str, pat, from) ==
  LET at == {i \in from .. (Len(str) - Len(pat)) :
               \A k \in 1 .. Len(pat) : str[i + k] = pat[k]}
  IN IF at = {} THEN -1 ELSE CHOOSE i \in at : \A i2 \in at : i <= i2

\* mid(pos, len)
Mid(str, pos, len) ==
  SubSeq(str, pos + 1, IF pos + len <= Len(str) THEN pos + len ELSE Len(str))

\* remove(ch)
Remove(str, ch) == SelectSeq(str, LAMBDA c : c # ch)

make_uuid_s == <<"m", "a", "k", "e", "_", "u", "u", "i", "d">>

\* A UUID literal, 8-4-4-4-12, of one digit.
Uuid(c) ==
  Rep(c, 8) \o <<"-">> \o Rep(c, 4) \o <<"-">> \o Rep(c, 4) \o <<"-">> \o Rep(c, 4)
    \o <<"-">> \o Rep(c, 12)

(***************************************************************************)
(* What the host finds on disk when a handler runs.  compiles: the object  *)
(* the sources compile to, 0 when the compiler rejects them.               *)
(***************************************************************************)
AddonDirs ==
  << [path |-> <<"Addons", "Nodes">>, key |-> Uuid("1"), cpp_files |-> {"n.cpp"}, compiles |-> 1],
     [path |-> <<"Addons", "A">>,     key |-> Uuid("1"), cpp_files |-> {},        compiles |-> 1],
     [path |-> <<"Addons", "A">>,     key |-> Uuid("1"), cpp_files |-> {"a.cpp"}, compiles |-> 1],
     [path |-> <<"Addons", "A">>,     key |-> Uuid("1"), cpp_files |-> {"a.cpp"}, compiles |-> 0] >>

NodeText(literal) ==
  <<"/", "/">> \o make_uuid_s \o <<"(">> \o literal \o <<")">>

NodeFiles ==
  << [suffix |-> "hpp", readable |-> TRUE,
      content |-> NodeText(<<"\"">> \o Uuid("2") \o <<"\"">>), compiles |-> 2],
     [suffix |-> "cpp", readable |-> TRUE,
      content |-> NodeText(<<"\"">> \o Uuid("2") \o <<"\"">>), compiles |-> 5],
     [suffix |-> "txt", readable |-> TRUE,
      content |-> NodeText(<<"\"">> \o Uuid("2") \o <<"\"">>), compiles |-> 2],
     [suffix |-> "hpp", readable |-> FALSE,
      content |-> NodeText(<<"\"">> \o Uuid("2") \o <<"\"">>), compiles |-> 2],
     [suffix |-> "hpp", readable |-> TRUE,
      content |-> <<"/", "/">> \o <<"\"">> \o Uuid("2") \o <<"\"">>, compiles |-> 2],
     [suffix |-> "hpp", readable |-> TRUE,
      content |-> NodeText(Uuid("2")), compiles |-> 2],
     [suffix |-> "hpp", readable |-> TRUE,
      content |-> NodeText(<<"\"">> \o Uuid("2")), compiles |-> 2],
     [suffix |-> "hpp", readable |-> TRUE,
      content |-> NodeText(<<"\"">> \o Rep("2", 8) \o <<"\"">>), compiles |-> 2] >>

\* The job ids the sources above lead to; a job's key is kept as the index
\* of its id, which is also the VModuleKey of its module.
KnownIds == <<Remove(Uuid("1"), "-"), Remove(Uuid("2"), "-")>>

JobKeys == 1 .. Len(KnownIds)

KeyOfId(id) == CHOOSE k \in JobKeys : KnownIds[k] = id

(***************************************************************************)
(* AddonCompiler: the compilation scheduler                                *)
(***************************************************************************)
JobIds == 1 .. MaxJobs

Terminal == {"Finalized", "Failed"}

JobsOf(k) == {j \in DOMAIN jobs : submits[j].key = k}

\* The last job submitted for key k.
Latest(k) ==
  LET all == {j \in 1 .. Len(submits) : submits[j].key = k}
  IN IF all = {} THEN 0 ELSE CHOOSE j \in all : \A j2 \in all : j >= j2

\* A scheduler that never treats a result as superseded.
Superseded_Never(j) == FALSE

\* Job j has been resubmitted: its result is to be discarded.
Superseded(j) == Latest(submits[j].key) # j

\* A scheduler that starts a pending job whatever is in flight.
CanStart_Always(j) == TRUE

\* A pending job starts when no compilation of its key is in flight.
CanStart(j) == \A j2 \in JobsOf(submits[j].key) : jobs[j2] # "Compiling"

\* The Object Producer: the object the sources compile to, 0 for a
\* diagnostic.
Compile(src) == src

\* jobCompleted(...) emitted through the queued connection.
JobCompleted(j, outcome) == [job |-> j, key |-> submits[j].key, outcome |-> outcome]

\* A queue that replaces whatever job the key has, completed ones included.
Replaceable_Any(st) == TRUE

\* The job a submission replaces is one that has not started.
Replaceable(st) == st = "Pending"

\* submitJob(id, sources, flags): enqueue the job, replacing a job of the
\* same key that has not started.  overlaps records that a job of the key
\* had not completed when this one was submitted.
submitJob(id, src) ==
  LET j == Len(submits) + 1
      k == KeyOfId(id)
      kept == {j2 \in DOMAIN jobs : ~(submits[j2].key = k /\ Replaceable(jobs[j2]))}
  IN /\ Len(submits) < MaxJobs
     /\ submits' = Append(submits, [key |-> k, src |-> src,
                                   overlaps |-> \E j2 \in JobsOf(k) : jobs[j2] \notin Terminal])
     /\ jobs' = [j2 \in kept \cup {j} |-> IF j2 = j THEN "Pending" ELSE jobs[j2]]

StartCompile(j) ==
  /\ alive
  /\ j \in DOMAIN jobs
  /\ jobs[j] = "Pending"
  /\ CanStart(j)
  /\ jobs' = [jobs EXCEPT ![j] = "Compiling"]
  /\ ranOn' = [ranOn EXCEPT !.compile = @ \cup {"worker"}]
  /\ UNCHANGED <<envVars, linkerVars, hostVars, submits, linked, events, notified, hostRet>>

\* A scheduler that drops the failure of a compilation.
ReportFailure_Dropped(queue, j) == queue

\* A compilation failure is reported: jobCompleted with the diagnostic.
ReportFailure(queue, j) == Append(queue, JobCompleted(j, "Failed"))

\* The worker's compilation of job j ends.
CompileDone(j) ==
  /\ alive
  /\ j \in DOMAIN jobs
  /\ jobs[j] = "Compiling"
  /\ IF Superseded(j)
     THEN /\ jobs' = [j2 \in DOMAIN jobs \ {j} |-> jobs[j2]]
          /\ UNCHANGED events
     ELSE IF Compile(submits[j].src) = 0
     THEN /\ jobs' = [jobs EXCEPT ![j] = "Failed"]
          /\ events' = ReportFailure(events, j)
     ELSE /\ jobs' = [jobs EXCEPT ![j] = "LinkPending"]
          /\ UNCHANGED events
  /\ UNCHANGED <<envVars, ranOn, linkerVars, hostVars, submits, linked, notified, hostRet>>

\* A link that leaves the previous module of the key to the caller.
UnloadPrevious_Skipped(LO, K, bld) == ApiResult(LO, "none", "", NullSym, <<>>, FALSE)

\* link unloads the module the key has, if it has one, before it adds the
\* new version.
UnloadPrevious(LO, K, bld) ==
  IF K \in DOMAIN LO
  THEN removeObject(LO, K, bld)
  ELSE ApiResult(LO, "none", "", NullSym, <<>>, FALSE)

\* link(key, object, resolver) on the primary thread: the previous module
\* of the key is unloaded, the object added and finalized.
Link(j) ==
  /\ alive
  /\ j \in DOMAIN jobs
  /\ jobs[j] = "LinkPending"
  /\ IF Superseded(j)
     THEN /\ jobs' = [j2 \in DOMAIN jobs \ {j} |-> jobs[j2]]
          /\ UNCHANGED <<linkerVars, linked, events, ranOn>>
     ELSE LET K == submits[j].key
              o == Compile(submits[j].src)
              r0 == UnloadPrevious(LinkedObjects, K, build)
              r1 == addObject(r0.LO, K, o, build)
          IN \E r2 \in {IF r1.err = "none" THEN emitAndFinalize(r1.LO, K, build) ELSE r1} :
             LET outcome == IF r2.err = "none" THEN "Finalized" ELSE "Failed"
                 log == r0.log \o r2.log
             IN
             /\ LinkedObjects' = r2.LO
             /\ alive' \in Survives([r2 EXCEPT !.log = log])
             /\ ret' = Ret("link", K, o, "", FALSE, r2)
             /\ trace' = log
             /\ jobs' = [jobs EXCEPT ![j] = outcome]
             /\ linked' = linked \cup {j}
             /\ events' = Append(events, JobCompleted(j, outcome))
             /\ ranOn' = [ranOn EXCEPT !.link = @ \cup {"primary"}]
             /\ UNCHANGED build
  /\ UNCHANGED <<envVars, submits, notified, hostRet, hostVars>>

(***************************************************************************)
(* ApplicationPlugin                                                       *)
(***************************************************************************)
\* A jobCompleted connection that runs registerAddon twice for a signal.
registerAddon_Twice(reg, p) == Append(Append(reg, p), p)

\* registerAddon(p): the host registers what the signal carries.
registerAddon(reg, p) == Append(reg, p)

\* The thread that emitted signal e: the primary thread after a link, the
\* worker for a compilation that failed.
Emitter(e) == IF e.job \in linked THEN "primary" ELSE "worker"

\* A direct connection: the slot runs where the signal is emitted.
SlotThread_Direct(emitter) == emitter

\* Qt::QueuedConnection: the slot runs in the thread of the receiver, the
\* ApplicationPlugin, which lives in the primary thread.
SlotThread(emitter) == "primary"

\* The event loop of the primary thread runs the slot connected to
\* jobCompleted with Qt::QueuedConnection.
DeliverJobCompleted ==
  /\ alive
  /\ events # <<>>
  /\ notified' = registerAddon(notified, Head(events))
  /\ events' = Tail(events)
  /\ ranOn' = [ranOn EXCEPT !.registerAddon = @ \cup {SlotThread(Emitter(Head(events)))}]
  /\ UNCHANGED <<envVars, linkerVars, hostVars, submits, jobs, linked, hostRet>>

FileName(path) == path[Len(path)]

\* setupAddon(addon) up to its call of submitJob: the id it submits, <<>>
\* when it returns before.
setupAddon(addon) ==
  IF FileName(addon.path) = "Nodes" THEN <<>>
  ELSE IF addon.cpp_files = {} THEN <<>>
  ELSE Remove(addon.key, "-")

\* The position after which setupNode looks for the literal: make_uuid + 9.
MarkerLen == 9

\* (umax - umin) of a literal of 36 characters.
QuoteSpan == 37

\* node.mid(umin + 1, 36)
UuidLen == 36

\* setupNode(f) up to its call of submitJob: the id it submits, <<>> when
\* it returns before.
setupNode(fi) ==
  LET node == fi.content
      make_uuid == IndexOf(node, make_uuid_s, 0)
      umin == IndexOf(node, <<"\"">>, make_uuid + MarkerLen)
      umax == IndexOf(node, <<"\"">>, umin + 1)
  IN IF ~(fi.suffix = "hpp" \/ fi.suffix = "cpp") THEN <<>>
     ELSE IF ~fi.readable THEN <<>>
     ELSE IF make_uuid = -1 THEN <<>>
     ELSE IF umin = -1 THEN <<>>
     ELSE IF umax = -1 THEN <<>>
     ELSE IF (umax - umin) # QuoteSpan THEN <<>>
     ELSE Remove(Mid(node, umin + 1, UuidLen), "-")

\* The handlers' results for what is on disk.
AddonIds == [a \in 1 .. Len(AddonDirs) |-> setupAddon(AddonDirs[a])]

NodeIds == [f \in 1 .. Len(NodeFiles) |-> setupNode(NodeFiles[f])]

\* The addon directories for which setupAddon returns at
\* "if(cpp_files.empty())".
EmptyAddons ==
  {a \in 1 .. Len(AddonDirs) :
     FileName(AddonDirs[a].path) # "Nodes" /\ AddonDirs[a].cpp_files = {}}

\* The node files for which setupNode returns at one of the tests of the
\* identity marker: no make_uuid, no quoted literal after it, or a literal
\* that is not 36 characters long.
Unidentified ==
  {f \in 1 .. Len(NodeFiles) :
     /\ NodeFiles[f].suffix \in {"hpp", "cpp"}
     /\ NodeFiles[f].readable
     /\ NodeIds[f] = <<>>}

SetupAddon(a) ==
  /\ alive
  /\ IF AddonIds[a] = <<>>
     THEN /\ hostRet' = IF a \in EmptyAddons THEN "empty" ELSE "ignored"
          /\ UNCHANGED <<submits, jobs>>
     ELSE /\ submitJob(AddonIds[a], AddonDirs[a].compiles)
          /\ hostRet' = "submitted"
  /\ UNCHANGED <<envVars, ranOn, linkerVars, hostVars, linked, events, notified>>

SetupNode(f) ==
  /\ alive
  /\ IF NodeIds[f] = <<>>
     THEN /\ hostRet' = IF f \in Unidentified THEN "nomarker" ELSE "ignored"
          /\ UNCHANGED <<submits, jobs>>
     ELSE /\ submitJob(NodeIds[f], NodeFiles[f].compiles)
          /\ hostRet' = "submitted"
  /\ UNCHANGED <<envVars, ranOn, linkerVars, hostVars, linked, events, notified>>

SchedNext ==
  \/ \E a \in 1 .. Len(AddonDirs) : SetupAddon(a)
  \/ \E f \in 1 .. Len(NodeFiles) : SetupNode(f)
  \/ \E j \in JobIds : StartCompile(j)
  \/ \E j \in JobIds : CompileDone(j)
  \/ \E j \in JobIds : Link(j)
  \/ DeliverJobCompleted

SchedSpec == Init /\ [][SchedNext]_vars

\* The event loop of the primary thread keeps running: a queued signal is
\* eventually delivered.
SchedFair ==
  /\ SchedSpec
  /\ WF_vars(DeliverJobCompleted)

\* The end of the link of job j as jobs shows it: j is discarded, Finalized
\* or Failed.  In SchedSpec these are the steps of Link(j), and Link(j) can
\* be taken whenever j is LinkPending.
LinkEnds(j) ==
  /\ alive
  /\ j \in DOMAIN jobs
  /\ jobs[j] = "LinkPending"
  /\ jobs' \in {[j2 \in DOMAIN jobs \ {j} |-> jobs[j2]],
               [jobs EXCEPT ![j] = "Finalized"],
               [jobs EXCEPT ![j] = "Failed"]}

\* The workers and the primary thread keep running: a job that can start,
\* a compilation under way and a pending link are carried on with, and a
\* queued signal is delivered.
SchedFairAll ==
  /\ SchedFair
  /\ WF_vars(\E j \in JobIds : StartCompile(j))
  /\ WF_vars(\E j \in JobIds : CompileDone(j))
  /\ WF_jobs(\E j \in JobIds : LinkEnds(j))

(***************************************************************************)
(* The host's file-system watchers.  The signals of the two                *)
(* QFileSystemWatcher are inputs: each runs the slot the constructor       *)
(* connects it to.  burst and changed record, for the properties, the      *)
(* submitJob calls of the current burst of change events and the changes   *)
(* of known units still waiting for a job.                                 *)
(***************************************************************************)
\* The submitJob call of a handler, with the records kept of it.
Submit(id, src) ==
  /\ submitJob(id, src)
  /\ hostRet' = "submitted"
  /\ burst' = Append(burst, KeyOfId(id))
  /\ changed' = changed \ {KeyOfId(id)}

\* What a scan of the Addons directory can find: directories of distinct
\* paths, as AddonDirs describes them.
Listings ==
  {L \in SUBSET (1 .. Len(AddonDirs)) :
     \A a, b \in L : a # b => AddonDirs[a].path # AddonDirs[b].path}

\* The keys of the addons of m_addonsPaths.
KnownAddonKeys ==
  {KeyOfId(Remove(AddonDirs[a].key, "-")) :
     a \in {a2 \in 1 .. Len(AddonDirs) :
              /\ AddonDirs[a2].path \in m_addonsPaths
              /\ FileName(AddonDirs[a2].path) # "Nodes"}}

\* A scan that sets up every directory it finds.
Fresh_All(L, paths) == L

\* "if(!m_addonsPaths.contains(p))": the directories of L to set up.
Fresh(L, paths) == {a \in L : AddonDirs[a].path \notin paths}

\* rescanAddons() with the directories L under Addons: setupAddon for every
\* path not yet in m_addonsPaths.  The scans of a run find the new
\* directories one at a time.
rescanAddons(L) ==
  LET fresh == Fresh(L, m_addonsPaths)
      subs == {a \in fresh : AddonIds[a] # <<>>}
  IN /\ Cardinality(fresh) <= 1
     /\ m_addonsPaths' = m_addonsPaths \cup {AddonDirs[a].path : a \in L}
     /\ setups' = IF fresh = {} THEN setups
                  ELSE Append(setups, AddonDirs[CHOOSE a \in fresh : TRUE].path)
     /\ rescanned' = rescanned \cup {AddonDirs[a].path : a \in L \ fresh}
     /\ IF subs = {}
        THEN /\ hostRet' = IF fresh \cap EmptyAddons # {} THEN "empty" ELSE "ignored"
             /\ UNCHANGED <<submits, jobs, burst, changed>>
        ELSE LET a == CHOOSE a2 \in subs : TRUE
             IN Submit(AddonIds[a], AddonDirs[a].compiles)

\* initialize(): "return;" ahead of rescanNodes() and rescanAddons().
Initialize ==
  /\ alive
  /\ hostRet' = "ignored"
  /\ UNCHANGED <<envVars, ranOn, linkerVars, submits, jobs, linked, events, notified, hostVars>>

\* m_addonsWatch.directoryChanged: QTimer::singleShot(5000, rescanAddons).
\* The directory changes when an addon is added and when a known one is
\* edited.
AddonsDirectoryChanged ==
  /\ alive
  /\ timers < MaxTimers
  /\ timers' = timers + 1
  /\ changed' = changed \cup KnownAddonKeys
  /\ UNCHANGED <<envVars, linkerVars, schedVars, scanVars, m_addonsPaths, burst>>

\* A single-shot timer fires: rescanAddons().
TimerFires(L) ==
  /\ alive
  /\ timers > 0
  /\ timers' = timers - 1
  /\ rescanAddons(L)
  /\ UNCHANGED <<envVars, ranOn, linkerVars, linked, events, notified>>

\* m_addonsWatch.fileChanged: updateAddon(f), which logs f.
AddonFileChanged ==
  /\ alive
  /\ KnownAddonKeys # {}
  /\ changed' = changed \cup KnownAddonKeys
  /\ hostRet' = "ignored"
  /\ UNCHANGED <<envVars, ranOn, linkerVars, scanVars, submits, jobs, linked, events, notified, m_addonsPaths,
                 timers, burst>>

\* m_nodesWatch.fileChanged: setupNode(f).
NodeFileChanged(f) ==
  /\ alive
  /\ IF NodeIds[f] = <<>>
     THEN /\ hostRet' = IF f \in Unidentified THEN "nomarker" ELSE "ignored"
          /\ UNCHANGED <<submits, jobs, burst, changed>>
     ELSE Submit(NodeIds[f], NodeFiles[f].compiles)
  /\ UNCHANGED <<envVars, ranOn, linkerVars, scanVars, linked, events, notified, m_addonsPaths, timers>>

\* The quiet period passes with no change event and no timer pending.
QuietPeriod ==
  /\ alive
  /\ timers = 0
  /\ burst' = <<>>
  /\ UNCHANGED <<envVars, linkerVars, schedVars, scanVars, m_addonsPaths, timers, changed>>

WatchNext ==
  \/ Initialize
  \/ AddonsDirectoryChanged
  \/ \E L \in Listings : TimerFires(L)
  \/ AddonFileChanged
  \/ \E f \in 1 .. Len(NodeFiles) : NodeFileChanged(f)
  \/ QuietPeriod

WatchSpec == Init /\ [][WatchNext]_vars

\* The event loop runs: a timer that is due fires.
WatchFair ==
  /\ WatchSpec
  /\ WF_vars(\E L \in Listings : TimerFires(L))

(***************************************************************************)
(* Properties of the scheduler                                             *)
(***************************************************************************)
SubmitsOf(k) == {j \in 1 .. Len(submits) : submits[j].key = k}

First(S) == CHOOSE j \in S : \A j2 \in S : j <= j2

Last(S) == CHOOSE j \in S : \A j2 \in S : j >= j2

NotifiedFor(k) == SelectSeq(notified, LAMBDA e : e.key = k)

\* The notifications of key k, delivered or still queued.
SignalsFor(k) == SelectSeq(notified \o events, LAMBDA e : e.key = k)

\* Key k has been submitted once, and its job compiled and linked.
OnceAndFinalized(k) ==
  /\ Cardinality(SubmitsOf(k)) = 1
  /\ First(SubmitsOf(k)) \in DOMAIN jobs
  /\ jobs[First(SubmitsOf(k))] = "Finalized"

C1_AtMostOne ==
  \A k \in JobKeys :
    Cardinality(SubmitsOf(k)) = 1 =>
      /\ Len(SignalsFor(k)) <= 1
      /\ OnceAndFinalized(k) =>
           /\ Len(SignalsFor(k)) = 1
           /\ SignalsFor(k)[1] = [job |-> First(SubmitsOf(k)), key |-> k, outcome |-> "Finalized"]

\* C1: a key submitted once whose job compiles and links gets exactly one
\* completion notification, carrying the finalized module: never two, and
\* the one is delivered to the host.
C1_ExactlyOneNotification ==
  /\ []C1_AtMostOne
  /\ \A k \in JobKeys : OnceAndFinalized(k) ~> (Len(NotifiedFor(k)) = 1)

\* The notification of a key submitted once has reached the host.
C1_Witness ==
  \E k \in JobKeys :
    /\ OnceAndFinalized(k)
    /\ NotifiedFor(k) = <<[job |-> First(SubmitsOf(k)), key |-> k, outcome |-> "Finalized"]>>

\* Key k has been submitted twice, the second time before the first job
\* had completed.
TwiceOverlapped(k) ==
  /\ Cardinality(SubmitsOf(k)) = 2
  /\ submits[Last(SubmitsOf(k))].overlaps

\* C2: a key submitted twice before either job completes gets one terminal
\* notification, that of the second job; the first job's result is
\* discarded, neither linked nor notified.
C2_LastSubmittedWins ==
  \A k \in JobKeys :
    TwiceOverlapped(k) =>
      LET j1 == First(SubmitsOf(k))
          j2 == Last(SubmitsOf(k))
          sig == SignalsFor(k)
      IN /\ j1 \notin linked
         /\ Len(sig) <= 1
         /\ \A i \in 1 .. Len(sig) : sig[i] = [job |-> j2, key |-> k, outcome |-> jobs[j2]]
         /\ jobs[j2] \in Terminal => Len(sig) = 1

\* The first job was discarded and the second job's outcome has reached
\* the host.
C2_Witness ==
  \E k \in JobKeys :
    /\ TwiceOverlapped(k)
    /\ First(SubmitsOf(k)) \notin DOMAIN jobs
    /\ jobs[Last(SubmitsOf(k))] \in Terminal
    /\ Len(NotifiedFor(k)) = 1

\* C3: at most one compilation is in flight for a key; a later job of the
\* key waits, pending, while one is compiling.
C3_OneCompilationPerKey ==
  \A k \in JobKeys :
    /\ Cardinality({j \in JobsOf(k) : jobs[j] = "Compiling"}) <= 1
    /\ \A j1, j2 \in JobsOf(k) :
         (j1 < j2 /\ jobs[j1] = "Compiling") => jobs[j2] = "Pending"

\* A job is compiling while a later job of its key waits.
C3_Witness ==
  \E k \in JobKeys : \E j1, j2 \in JobsOf(k) :
    j1 < j2 /\ jobs[j1] = "Compiling" /\ jobs[j2] = "Pending"

(***************************************************************************)
(* Properties of the linking layer                                         *)
(***************************************************************************)
Live == DOMAIN LinkedObjects

Exported(K) == Objects[LinkedObjects[K].obj].exported

\* Module K has been finalized with success.
FinalizedOk(K) == LinkedObjects[K].Finalized /\ ~LinkedObjects[K].PFC

FinalizeErrors == {"load", "unresolved", "reloc"}

\* C4: each exported symbol name has at most one finalized live module
\* providing it.
C4_OneFinalizedProvider ==
  \A n \in Names :
    Cardinality({K \in Live : FinalizedOk(K) /\ n \in Exported(K)}) <= 1

\* C5: adding an object under a new key that exports a name already
\* finalized by another live module fails, the new module is not added and
\* the modules already there are as before.
C5_CollisionRejected ==
  [][\A K \in Keys :
       ( /\ ret'.op = "addObject" /\ ret'.key = K
         /\ K \notin Live
         /\ \E K2 \in Live : FinalizedOk(K2) /\ Exported(K2) \cap Objects[ret'.obj].exported # {} )
       => ( /\ ret'.err # "none"
            /\ LinkedObjects' = LinkedObjects )]_vars

\* C6: after a finalization of module K that failed, K is not marked
\* finalized, no lookup of one of its symbols yields an address and no memory
\* is mapped for it.
C6_FailedFinalizeLeavesNothing ==
  ( /\ ret.op = "emitAndFinalize"
    /\ ret.err \in FinalizeErrors
    /\ ret.key \in Live )
  => ( /\ ~LinkedObjects[ret.key].Finalized
       /\ \A n \in DOMAIN LinkedObjects[ret.key].SymbolTable :
            ~SymBool(findSymbolIn(LinkedObjects, ret.key, n, FALSE))
       /\ ~LinkedObjects[ret.key].mapped )

\* The step removes module K, which was finalized.
RemovesFinalized(K) ==
  /\ ret'.op = "removeObject" /\ ret'.key = K /\ ret'.err = "none"
  /\ K \in Live
  /\ LinkedObjects[K].Finalized

C8_PlaceholderThenAddress ==
  \A K \in Live :
    /\ ~LinkedObjects[K].Finalized =>
         /\ DOMAIN LinkedObjects[K].SymbolTable = Defined(LinkedObjects[K].obj)
         /\ \A n \in DOMAIN LinkedObjects[K].SymbolTable : LinkedObjects[K].SymbolTable[n] = NullAddr
    /\ LinkedObjects[K].Finalized =>
         \A n \in Exported(K) : LinkedObjects[K].SymbolTable[n] # NullAddr

\* The lookups of the last call that hit a module whose finalize() was on
\* the call stack.
ReentrantLookups == {i \in 1 .. Len(trace) : trace[i].ev = "lookup" /\ trace[i].inprog}

Begins(K) == {i \in 1 .. Len(trace) : trace[i].ev = "begin" /\ trace[i].key = K}

\* C9 as stated: a lookup that reaches a module during that module's own
\* finalize fails with an error and returns no address.
C9_Original ==
  \A i \in ReentrantLookups : trace[i].err # "none" /\ trace[i].addr = NullAddr

\* C9, amended: a module is marked Finalized before any finalization work
\* is done, and a lookup that reaches it during its own finalize does not
\* run finalize again: it returns the address the symbol was loaded at.
C9_ReentrantLookupReturnsAddress ==
  /\ \A i \in 1 .. Len(trace) :
       /\ trace[i].ev # "reenter"
       /\ trace[i].ev = "begin" => trace[i].fin
  /\ \A K \in Keys : Cardinality(Begins(K)) <= 1
  /\ \A i \in ReentrantLookups :
       /\ trace[i].err = "none"
       /\ trace[i].addr = LoadAddr(trace[i].key, trace[i].name)
       /\ trace[i].addr # NullAddr

\* A lookup reached a module during that module's own finalize.
C9_Witness == ReentrantLookups # {}

\* C10: emitAndFinalize on a module already finalized is reported (a failed
\* assertion or an Error), and the modules are left as they were.
C10_SecondFinalizeReported ==
  [][\A K \in Keys :
       ( /\ ret'.op = "emitAndFinalize" /\ ret'.key = K
         /\ K \in Live
         /\ FinalizedOk(K) )
       => ( /\ ret'.err \notin {"none", "nullderef"}
            /\ LinkedObjects' = LinkedObjects )]_vars

\* The finalize() runs of module K that the step's call made.
BeginsNext(K) == {i \in 1 .. Len(trace') : trace'[i].ev = "begin" /\ trace'[i].key = K}

\* C11: a module becomes finalized only through emitAndFinalize, link or an
\* address lookup.  An address lookup runs finalize() at most once for a
\* module, only for a module not yet marked finalized, and does run it for
\* the module not yet finalized that it resolves to; a module marked
\* finalized stays so.  A lookup that resolves to a module finalized with
\* success returns the stored address and changes nothing.
C11_LazyFinalizeOnce ==
  [][\A K \in Live :
       /\ (~LinkedObjects[K].Finalized /\ K \in DOMAIN LinkedObjects' /\ LinkedObjects'[K].Finalized)
            => ret'.op \in {"emitAndFinalize", "lookupAddress", "link"}
       /\ ret'.op = "lookupAddress" =>
            /\ Cardinality(BeginsNext(K)) <= 1
            /\ BeginsNext(K) # {} => ~LinkedObjects[K].Finalized
            /\ K \in DOMAIN LinkedObjects'
            /\ (LinkedObjects[K].Finalized \/ BeginsNext(K) # {}) => LinkedObjects'[K].Finalized
            /\ findSymbol(LinkedObjects, ret'.name, ret'.exp).key = K =>
                 /\ ~LinkedObjects[K].Finalized => BeginsNext(K) # {}
                 /\ FinalizedOk(K) =>
                      /\ ret'.err = "none"
                      /\ ret'.sym.kind = "addr"
                      /\ ret'.sym.addr = LinkedObjects[K].SymbolTable[ret'.name]
                      /\ LinkedObjects' = LinkedObjects
                      /\ \A i \in 1 .. Len(trace') : trace'[i].ev # "begin"]_vars

\* An address lookup has finalized the module it resolved to, and in doing so
\* looked up a symbol of a module finalized before, which was not finalized
\* again.
C11_Witness ==
  /\ ret.op = "lookupAddress" /\ ret.err = "none"
  /\ \E i \in 1 .. Len(trace) : trace[i].ev = "begin" /\ trace[i].key = ret.sym.key
  /\ \E i \in 1 .. Len(trace) :
       /\ trace[i].ev = "lookup" /\ trace[i].key # ret.sym.key
       /\ Begins(trace[i].key) = {}
       /\ trace[i].addr = LinkedObjects[trace[i].key].SymbolTable[trace[i].name]

\* The events of the last call in which a finalize() resolved a reference.
Resolutions ==
  {i \in 1 .. Len(trace) :
     /\ trace[i].ev \in {"lookup", "external"}
     /\ \E b \in 1 .. (i - 1) : trace[b].ev = "begin"}

Ends(K) == {i \in 1 .. Len(trace) : trace[i].ev = "end" /\ trace[i].key = K}

C12_WitnessUnresolved ==
  /\ ret.op = "emitAndFinalize" /\ ret.err = "unresolved" /\ ret.errName = "m"

\* The step is addObject of an object that parses under key K, which has a
\* live module.
AddsUnderLiveKey(K) ==
  /\ ret'.op = "addObject" /\ ret'.key = K
  /\ Objects[ret'.obj].parses
  /\ K \in Live

\* C13: addObject under a key that has a live module is reported as an
\* error and leaves the modules as they were.
C13_LiveKeyRejected ==
  [][\A K \in Keys :
       AddsUnderLiveKey(K) =>
         /\ ret'.err # "none"
         /\ LinkedObjects' = LinkedObjects]_vars

\* The step links job j, whose key has a live module.
LinksNewVersion(j) ==
  /\ j \in DOMAIN jobs
  /\ j \notin linked
  /\ j \in linked'
  /\ submits[j].key \in Live

ResubmittedInFlight(k) ==
  /\ k \in Live
  /\ FinalizedOk(k)
  /\ \E j \in JobsOf(k) : jobs[j] \in {"Pending", "Compiling"}

Submitted(j) == j \in 1 .. Len(submits)

\* The completion notifications the host has received for job j.
NotifiedOf(j) == SelectSeq(notified, LAMBDA e : e.job = j)

\* The notifications of job j, delivered or still queued.
SignalsOf(j) == SelectSeq(notified \o events, LAMBDA e : e.job = j)

\* Job j was superseded by a later submission of its key before it
\* completed, and the scheduler has dropped it.
Discarded(j) == Submitted(j) /\ j \notin DOMAIN jobs

C16_FailureReported ==
  \A j \in DOMAIN jobs :
    /\ Len(SignalsOf(j)) <= 1
    /\ jobs[j] \in Terminal =>
         SignalsOf(j) = <<[job |-> j, key |-> submits[j].key, outcome |-> jobs[j]]>>

C16_NoRetry ==
  \A j \in DOMAIN jobs :
    jobs[j] = "Failed" =>
      /\ j \in DOMAIN jobs' /\ jobs'[j] = "Failed"
      /\ Len(SignalsOf(j)') = 1
      /\ (Len(submits') > Len(submits) => hostRet' = "submitted" /\ events' = events)

C17_EmptySourcesReported ==
  [][(hostRet # "empty" /\ hostRet' = "empty") =>
       /\ alive'
       /\ \A j \in DOMAIN jobs' : j \in DOMAIN jobs /\ jobs'[j] = jobs[j]
       /\ LinkedObjects' = LinkedObjects
       /\ \E a \in EmptyAddons : \E i \in (Len(events) + 1) .. Len(events') :
            /\ events'[i].key = KeyOfId(Remove(AddonDirs[a].key, "-"))
            /\ events'[i].outcome = "Failed"]_vars

\* C18: a burst of change events, up to the quiet period that ends it,
\* leads to no more than one submitJob call for a key.
C18_BurstSubmitsOnce ==
  \A i, j \in DOMAIN burst : burst[i] = burst[j] => i = j

\* C19: after the source of a known addon or node has changed, a job for
\* its key is eventually submitted.
C19_ChangeResubmitted ==
  \A k \in JobKeys : (k \in changed) ~> (k \notin changed)

\* The steps of the state machine of a job.
JobTransitions ==
  {<<"Pending", "Compiling">>,
   <<"Compiling", "Failed">>, <<"Compiling", "LinkPending">>,
   <<"LinkPending", "Finalized">>, <<"LinkPending", "Failed">>}

\* C20: a job starts Pending, every change of its state is one of
\* Pending -> Compiling -> {Failed | LinkPending} -> {Finalized | Failed},
\* and a job that is Finalized or Failed keeps that state for ever.
C20_JobStateMachine ==
  [][/\ \A j \in DOMAIN jobs \cap DOMAIN jobs' :
          jobs'[j] # jobs[j] => <<jobs[j], jobs'[j]>> \in JobTransitions
     /\ \A j \in DOMAIN jobs' \ DOMAIN jobs : jobs'[j] = "Pending"
     /\ \A j \in DOMAIN jobs :
          jobs[j] \in Terminal => j \in DOMAIN jobs' /\ jobs'[j] = jobs[j]]_vars

\* A job went the whole way to Finalized, another failed in compilation,
\* and the key of a completed job has been submitted again.
C20_Witness ==
  /\ \E j \in DOMAIN jobs : jobs[j] = "Finalized" /\ j \in linked
  /\ \E j \in DOMAIN jobs : jobs[j] = "Failed" /\ j \notin linked
  /\ \E j, j2 \in DOMAIN jobs :
       /\ j < j2
       /\ submits[j].key = submits[j2].key
       /\ jobs[j] \in Terminal

\* C24: when setupNode is given a source without a recognizable identity
\* marker, the process goes on, nothing of the source is submitted, linked
\* or registered, and the condition is reported to the host: a notification
\* is queued for it.
C24_MissingIdentityReported ==
  [][(hostRet # "nomarker" /\ hostRet' = "nomarker") =>
       /\ alive'
       /\ submits' = submits
       /\ LinkedObjects' = LinkedObjects
       /\ notified' = notified
       /\ Len(events') > Len(events)]_vars

\* C28: whatever the directory-change events and the scans, rescanAddons
\* calls setupAddon at most once for an addon directory path, a path of
\* m_addonsPaths is skipped, and m_addonsPaths only grows.
C28_SetupOncePerPath ==
  /\ [](\A i, j \in DOMAIN setups : setups[i] = setups[j] => i = j)
  /\ [][/\ m_addonsPaths \subseteq m_addonsPaths'
        /\ \A i \in (Len(setups) + 1) .. Len(setups') : setups'[i] \notin m_addonsPaths
        /\ setups' # setups =>
             Len(submits') - Len(submits) <= Len(setups') - Len(setups)]_vars

\* A scan has found again, and skipped, a directory it had set up and
\* submitted before.
C28_Witness ==
  /\ \E i \in DOMAIN setups : setups[i] \in rescanned
  /\ hostRet = "ignored"
  /\ submits # <<>>
  /\ timers = 0

\* Module K has Name in its symbol table, exported when exp asks for it.
Provides(K, Name, exp) ==
  /\ Name \in DOMAIN LinkedObjects[K].SymbolTable
  /\ exp => Name \in Objects[LinkedObjects[K].obj].exported

\* C27: findSymbol(Name, ExportedSymbolsOnly) returns a symbol exactly when
\* a live module has Name in its table, exported if ExportedSymbolsOnly; the
\* symbol it returns is of such a module, and never a non-exported one when
\* ExportedSymbolsOnly is true.
C27_FindSymbolRule ==
  ret.op = "findSymbol" =>
    /\ ret.sym.kind # "null" <=> \E K \in DOMAIN LinkedObjects : Provides(K, ret.name, ret.exp)
    /\ ret.sym.kind # "null" =>
         /\ ret.sym.key \in DOMAIN LinkedObjects
         /\ Provides(ret.sym.key, ret.name, ret.exp)
         /\ ret.exp => ret.sym.exported

\* The module the call that ret describes was made for.
CalledFor(r) == IF r.op = "lookupAddress" THEN r.sym.key ELSE r.key

\* The failures of a module: an object that does not parse, an unresolved
\* symbol, a relocation that fails, a load that fails.
Failures == {"parse", "unresolved", "reloc", "load"}

\* The call that ret describes failed for a module: with one of Failures, or
\* as an addObject under a key in use.
FailedFor(r) ==
  /\ r.op \in {"addObject", "emitAndFinalize", "lookupAddress"}
  /\ r.err \in Failures \/ (r.op = "addObject" /\ r.err = "assert")

\* C23: a linker call that fails for one module returns the failure as an
\* error, the process goes on, and every other live module keeps its symbol
\* table, its finalized flag and its addresses.
C23_FailureIsLocal ==
  [][FailedFor(ret') =>
       /\ alive'
       /\ \A K \in DOMAIN LinkedObjects \ {CalledFor(ret')} :
            /\ K \in DOMAIN LinkedObjects'
            /\ LinkedObjects'[K] = LinkedObjects[K]]_vars

\* C22: compilations run on workers, links and registerAddon on the primary
\* thread only; what the host is handed is a signal that was queued for the
\* primary thread, never anything else.
C22_HostOnPrimaryThread ==
  /\ [](/\ ranOn.compile \subseteq {"worker"}
        /\ ranOn.link \subseteq {"primary"}
        /\ ranOn.registerAddon \subseteq {"primary"})
  /\ [][notified' # notified =>
          /\ events # <<>>
          /\ notified' = Append(notified, Head(events))
          /\ "primary" \in ranOn'.registerAddon]_vars

\* The host has been handed a module that was linked and a failure that a
\* worker signalled.
C22_Witness ==
  /\ ranOn.compile = {"worker"}
  /\ ranOn.link = {"primary"}
  /\ ranOn.registerAddon = {"primary"}
  /\ \E i \in DOMAIN notified : notified[i].outcome = "Finalized"
  /\ \E i \in DOMAIN notified : notified[i].outcome = "Failed" /\ notified[i].job \notin linked

\* The finalize() of module K succeeded in the step.
FinalizedNow(K) ==
  /\ K \in DOMAIN LinkedObjects'
  /\ \E i \in 1 .. Len(trace') :
       trace'[i].ev = "end" /\ trace'[i].key = K /\ trace'[i].err = "none"

\* C25 as stated: after a successful finalize the module holds the object
\* buffer no more, with and without NotifyFreed.
C25_Original ==
  [][\A K \in Keys :
       FinalizedNow(K) =>
         ~LinkedObjects'[K].PFC /\ ~LinkedObjects'[K].ObjForNotify]_vars

\* C25, amended: a successful finalize gives up the PreFinalizeContents; the
\* object itself is released with them when no NotifyFreed callback is
\* installed, and is kept in ObjForNotify, until the module is destroyed,
\* when one is.  No module holds the object in both places.
C25_BufferReleasedUnlessNotifyFreed ==
  /\ [](\A K \in Live :
          /\ LinkedObjects[K].ObjForNotify => Parent.NotifyFreed /\ FinalizedOk(K)
          /\ FinalizedOk(K) => (LinkedObjects[K].ObjForNotify <=> Parent.NotifyFreed))
  /\ [][\A K \in Keys :
          FinalizedNow(K) =>
            /\ ~LinkedObjects'[K].PFC
            /\ LinkedObjects'[K].ObjForNotify <=> Parent.NotifyFreed]_vars

\* A module finalized with success still holds its object, for NotifyFreed.
C25_Witness ==
  \E K \in Live :
    /\ FinalizedOk(K)
    /\ Parent.NotifyFreed
    /\ LinkedObjects[K].ObjForNotify
    /\ ret.op = "emitAndFinalize" /\ ret.key = K /\ ret.err = "none"

\* The indexes of fn among the callbacks recorded for module K.
CallsOf(K, fn) ==
  {i \in 1 .. Len(LinkedObjects[K].calls) : LinkedObjects[K].calls[i] = fn}

\* C26: for a module, NotifyLoaded is called at most once and before
\* NotifyFinalized, NotifyFinalized at most once and only by a finalize that
\* succeeds; when the module is destroyed NotifyFreed, if installed, is
\* called once, with the module's object, finalized or not, and the process
\* goes on.
C26_CallbackOrder ==
  /\ [](\A K \in Live :
          /\ Cardinality(CallsOf(K, "NotifyLoaded")) <= 1
          /\ Cardinality(CallsOf(K, "NotifyFinalized")) <= 1
          /\ \A i \in CallsOf(K, "NotifyFinalized") :
               /\ \E i0 \in CallsOf(K, "NotifyLoaded") : i0 < i
               /\ FinalizedOk(K))
  /\ [][\A i \in 1 .. Len(trace') :
          (trace'[i].ev = "destroy" /\ Parent.NotifyFreed) =>
            /\ trace'[i].name = "NotifyFreed"
            /\ trace'[i].err = "none"
            /\ alive']_vars

\* C21: mutations of the symbol table are serialized: in no state are two
\* threads inside the layer at once with one of them in addObject,
\* removeObject or emitAndFinalize, whichever threads make the calls.
C21_MutationsSerialized ==
  \A t \in Threads : \A u \in Threads \ {t} : ~Races(running[t], running[u])

====
